---- MODULE Spec2Model ----
(***************************************************************************)
(* bldr-graph (components/builder-graph/src/main.rs): the command loop of  *)
(* main, resolve_name, short_name, do_check and check_package.             *)
(*                                                                         *)
(* Strings are sequences of one-character strings, so that split('/'),     *)
(* starts_with and format! are computed character by character.  The       *)
(* package graph and the data store are the two collaborators of do_check: *)
(* graph is a function from the short names it knows to their latest       *)
(* identifier, store a function from the identifiers it holds to their     *)
(* ordered dependency lists.  The recursion of check_package is run on an  *)
(* explicit call stack, one frame per active call; calls lists, in call   *)
(* order, the identifiers check_package was called on in the current run,  *)
(* and stale is the ledger the run before it left behind when it returned. *)
(* Of the other commands of the loop the model keeps what they are handed   *)
(* and how they end: passed holds the filter argument of the latest call   *)
(* of do_deps, do_rdeps and do_export, fcmd the argument of the latest     *)
(* "filter" command read, exited whether an "exit" command has been read,  *)
(* and pc = "panic" is the process aborted by a panic in the loop.         *)
(***************************************************************************)
EXTENDS Naturals, Sequences, FiniteSets

VARIABLES graph, store, filter, done, ncmds, pc,
          ck_name, ck_filter, ck_ident, ck_deps, ck_i,
          deps_map, new_deps, ck_j, stack, out, asked, calls, stale,
          passed, fcmd, exited

env  == <<graph, store>>
loop == <<filter, done, ncmds, stale, passed, fcmd, exited>>
chk  == <<ck_name, ck_filter, ck_ident, ck_deps, ck_i>>
vars == <<graph, store, filter, done, ncmds, pc,
          ck_name, ck_filter, ck_ident, ck_deps, ck_i,
          deps_map, new_deps, ck_j, stack, out, asked, calls, stale,
          passed, fcmd, exited>>

(* ------------------------------ bounds --------------------------------- *)

\* commands read by the loop in one session
MaxCmds == 2
\* check_package frames the call stack holds before it is exhausted
MaxDepth == 5

(* ------------------------------ strings -------------------------------- *)

EmptyStr == << >>

\* PackageIdent rendered as origin/name/version/release
Ident(o, n, v, r) == <<o, "/", n, "/", v, "/", r>>

P_ID  == Ident("a", "p", "1", "1")
M_ID  == Ident("a", "m", "1", "1")
L1_ID == Ident("a", "l", "1", "1")
L2_ID == Ident("a", "l", "2", "1")
T_ID  == Ident("o", "t", "1", "1")

SN_P == <<"a", "/", "p">>
SN_M == <<"a", "/", "m">>
SN_L == <<"a", "/", "l">>
SN_T == <<"o", "/", "t">>
SN_X == <<"a", "/", "x">>

Idents     == {P_ID, M_ID, L1_ID, L2_ID, T_ID}
ShortNames == {SN_P, SN_M, SN_L, SN_T}

\* str::starts_with
StartsWithAny(s, p) == TRUE
StartsWith(s, p) == Len(p) <= Len(s) /\ SubSeq(s, 1, Len(p)) = p

\* str::split('/'): the parts between the slashes, empty parts included
RECURSIVE SplitAcc(_, _, _)
SplitAcc(s, cur, acc) ==
  IF s = << >> THEN Append(acc, cur)
  ELSE IF Head(s) = "/" THEN SplitAcc(Tail(s), << >>, Append(acc, cur))
  ELSE SplitAcc(Tail(s), Append(cur, Head(s)), acc)

Split(s) == SplitAcc(s, << >>, << >>)

\* short_name: format!("{}/{}", parts[0], parts[1]); every identifier the
\* store hands out has four parts, so the assert!(parts.len() >= 2) holds
short_name(id) == Split(id)[1] \o <<"/">> \o Split(id)[2]

(* --------------------------- collaborators ----------------------------- *)

\* PackageGraph::resolve: Some(latest) for a short name the graph knows
GraphHas(g, n) == n \in DOMAIN g
GraphLatest(g, n) == g[n]

\* DataStore::get_job_graph_package: Ok(package) for an identifier it holds
StoreHas(s, id) == id \in DOMAIN s
StoreDeps(s, id) == s[id]

\* resolve_name
ResolveNameAlways(g, n) == IF GraphHas(g, short_name(n)) THEN GraphLatest(g, short_name(n)) ELSE n
resolve_name(g, n) ==
  IF Len(Split(n)) = 2
  THEN IF GraphHas(g, n) THEN GraphLatest(g, n) ELSE n
  ELSE n

\* the names resolve_name hands to graph.resolve
Queried(n) == IF Len(Split(n)) = 2 THEN {n} ELSE {}

(* ------------------------------ ledger --------------------------------- *)

\* HashMap::insert
LedgerInsert(m, k, v) == [x \in DOMAIN m \cup {k} |-> IF x = k THEN v ELSE m[x]]

\* HashMap::entry(k).or_insert_with(|| v)
LedgerOverwrite(m, k, v) == LedgerInsert(m, k, v)
LedgerOrInsert(m, k, v) == IF k \in DOMAIN m THEN m ELSE LedgerInsert(m, k, v)

(* --------------------------- report lines ------------------------------ *)

Line(kind, a, b, c) == [kind |-> kind, a |-> a, b |-> b, c |-> c]

FilteredLine(f)       == Line("filtered", f, EmptyStr, EmptyStr)
HeaderLine            == Line("header", EmptyStr, EmptyStr, EmptyStr)
UpdateLine(dep, cand) == Line("update", dep, cand, EmptyStr)
BlankLine             == Line("blank", EmptyStr, EmptyStr, EmptyStr)
ConflictBlock(id, entry, dep) == Line("conflict", id, entry, dep)
NoMatchFor(id)        == Line("nomatch_for", id, EmptyStr, EmptyStr)
NoMatchRoot           == Line("nomatch", EmptyStr, EmptyStr, EmptyStr)
TimeLine              == Line("time", EmptyStr, EmptyStr, EmptyStr)

(* ---------------------------- environments ----------------------------- *)

\* the graph answers with the latest identifier under the short name asked
Graphs ==
  { [n \in D |-> IF n = SN_P THEN P_ID ELSE IF n = SN_M THEN M_ID
                 ELSE IF n = SN_T THEN T_ID ELSE l] :
      D \in {ShortNames, ShortNames \ {SN_L}, ShortNames \ {SN_M}}, l \in {L1_ID, L2_ID} }

RootDeps == { << >>, <<L1_ID>>, <<M_ID>>, <<L1_ID, M_ID>>, <<M_ID, L1_ID>>,
              <<L2_ID, M_ID>>, <<L1_ID, L2_ID>>, <<M_ID, T_ID>>, <<T_ID, L1_ID>> }
MidDeps  == { << >>, <<L1_ID>>, <<L2_ID>>, <<L1_ID, L2_ID>>, <<L2_ID, L1_ID>>,
              <<T_ID, L2_ID>>, <<M_ID>> }
LibDeps  == { << >>, <<M_ID>> }
Absent   == { {}, {M_ID}, {L1_ID}, {L2_ID} }

Stores ==
  { [x \in Idents \ gone |->
       IF x = P_ID THEN dp ELSE IF x = M_ID THEN dm
       ELSE IF x = L1_ID THEN dl ELSE IF x = T_ID THEN <<L2_ID>> ELSE << >>] :
      dp \in RootDeps, dm \in MidDeps, dl \in LibDeps, gone \in Absent }

CheckNames == {SN_P, M_ID, SN_X}
FilterArgs == { <<"a", "/">>, <<"a", "/", "l", "/", "1">> }

(* ------------------------------- Init ---------------------------------- *)

Init ==
  /\ graph \in Graphs
  /\ store \in Stores
  /\ filter = EmptyStr
  /\ done = FALSE
  /\ ncmds = 0
  /\ pc = "prompt"
  /\ ck_name = EmptyStr
  /\ ck_filter = EmptyStr
  /\ ck_ident = EmptyStr
  /\ ck_deps = << >>
  /\ ck_i = 1
  /\ deps_map = << >>
  /\ new_deps = << >>
  /\ ck_j = 1
  /\ stack = << >>
  /\ out = << >>
  /\ asked = {}
  /\ calls = << >>
  /\ stale = << >>
  /\ passed = [deps |-> EmptyStr, rdeps |-> EmptyStr, export |-> EmptyStr]
  /\ fcmd = EmptyStr
  /\ exited = FALSE

(* --------------------------- command loop ------------------------------ *)

CanRead == pc = "prompt" /\ ~done /\ ncmds < MaxCmds

\* "filter <origin>"
CmdFilter(f) ==
  /\ CanRead
  /\ ncmds' = ncmds + 1
  /\ filter' = f
  /\ fcmd' = f
  /\ UNCHANGED <<env, done, stale, pc, chk, deps_map, new_deps, ck_j, stack, out, asked, calls>>
  /\ UNCHANGED <<passed, exited>>

\* "filter", were the filter in force left as it is
CmdFilterKeep ==
  /\ CanRead
  /\ ncmds' = ncmds + 1
  /\ fcmd' = EmptyStr
  /\ UNCHANGED <<env, filter, done, stale, pc, chk, deps_map, new_deps, ck_j, stack, out, asked, calls>>
  /\ UNCHANGED <<passed, exited>>

\* "filter"
CmdFilterClear ==
  /\ CanRead
  /\ ncmds' = ncmds + 1
  /\ filter' = EmptyStr
  /\ fcmd' = EmptyStr
  /\ UNCHANGED <<env, done, stale, pc, chk, deps_map, new_deps, ck_j, stack, out, asked, calls>>
  /\ UNCHANGED <<passed, exited>>

\* "exit"
CmdExit ==
  /\ CanRead
  /\ ncmds' = ncmds + 1
  /\ done' = TRUE
  /\ exited' = TRUE
  /\ UNCHANGED <<env, filter, stale, pc, chk, deps_map, new_deps, ck_j, stack, out, asked, calls>>
  /\ UNCHANGED <<passed, fcmd>>

run == <<chk, deps_map, new_deps, ck_j, stack, out, asked, calls, stale>>

\* "deps <name>": do_deps is handed the filter in force
CmdDeps ==
  /\ CanRead
  /\ ncmds' = ncmds + 1
  /\ passed' = [passed EXCEPT !.deps = filter]
  /\ UNCHANGED <<env, filter, done, pc, run, fcmd, exited>>

\* "rdeps <name> [<count>]" with a count that parses, or none
CmdRdeps ==
  /\ CanRead
  /\ ncmds' = ncmds + 1
  /\ passed' = [passed EXCEPT !.rdeps = filter]
  /\ UNCHANGED <<env, filter, done, pc, run, fcmd, exited>>

\* "export <file>": do_export is handed the filter in force, and panics
\* when the file cannot be created
CmdExport ==
  /\ CanRead
  /\ ncmds' = ncmds + 1
  /\ passed' = [passed EXCEPT !.export = filter]
  /\ \E created \in BOOLEAN : pc' = IF created THEN "prompt" ELSE "panic"
  /\ UNCHANGED <<env, filter, done, run, fcmd, exited>>

\* "top <count>", "find <term> <count>", "rdeps <name> <count>" with a count
\* that is no number: parse::<usize>().unwrap() panics
CmdBadCount ==
  /\ CanRead
  /\ ncmds' = ncmds + 1
  /\ pc' = "panic"
  /\ UNCHANGED <<env, filter, done, run, passed, fcmd, exited>>

\* help, stats, top, find, resolve, an unknown word, an empty line, and
\* rdeps, deps, check, export without their argument: output only
CmdPlain ==
  /\ CanRead
  /\ ncmds' = ncmds + 1
  /\ UNCHANGED <<env, filter, done, pc, run, passed, fcmd, exited>>

(* ------------------------------ do_check ------------------------------- *)

\* "check <name>": do_check up to its loop over the root's dependencies, or
\* all of it when the store has no package for the resolved name
DoCheckStale(n) ==
  /\ CanRead
  /\ ncmds' = ncmds + 1
  /\ ck_name' = n
  /\ ck_filter' = filter
  /\ UNCHANGED <<deps_map, new_deps>>
  /\ ck_ident' = resolve_name(graph, n)
  /\ asked' = Queried(n)
  /\ calls' = << >>
  /\ stale' = deps_map
  /\ stack' = << >>
  /\ ck_i' = 1
  /\ ck_j' = 1
  /\ IF StoreHas(store, ck_ident')
     THEN /\ ck_deps' = StoreDeps(store, ck_ident')
          /\ out' = (IF filter # EmptyStr THEN <<FilteredLine(filter)>> ELSE << >>)
                    \o <<HeaderLine>>
          /\ pc' = "deps"
     ELSE /\ ck_deps' = << >>
          /\ out' = <<NoMatchRoot, TimeLine>>
          /\ pc' = "prompt"
  /\ UNCHANGED <<env, filter, done, passed, fcmd, exited>>

DoCheck(n) ==
  /\ CanRead
  /\ ncmds' = ncmds + 1
  /\ ck_name' = n
  /\ ck_filter' = filter
  /\ deps_map' = << >>
  /\ new_deps' = << >>
  /\ ck_ident' = resolve_name(graph, n)
  /\ asked' = Queried(n)
  /\ calls' = << >>
  /\ stale' = deps_map
  /\ stack' = << >>
  /\ ck_i' = 1
  /\ ck_j' = 1
  /\ IF StoreHas(store, ck_ident')
     THEN /\ ck_deps' = StoreDeps(store, ck_ident')
          /\ out' = (IF filter # EmptyStr THEN <<FilteredLine(filter)>> ELSE << >>)
                    \o <<HeaderLine>>
          /\ pc' = "deps"
     ELSE /\ ck_deps' = << >>
          /\ out' = <<NoMatchRoot, TimeLine>>
          /\ pc' = "prompt"
  /\ UNCHANGED <<env, filter, done, passed, fcmd, exited>>

\* the same turn, were the ledger given the dependency as declared and not
\* the candidate it was resolved to
DoCheckDepDeclared ==
  /\ pc = "deps"
  /\ ck_i <= Len(ck_deps)
  /\ ck_i' = ck_i + 1
  /\ LET dep == ck_deps[ck_i]
         dep_name == short_name(dep)
         dep_latest == resolve_name(graph, dep_name)
     IN IF StartsWith(dep, ck_filter)
        THEN /\ deps_map' = LedgerInsert(deps_map, dep_name, dep)
             /\ new_deps' = Append(new_deps, dep_latest)
             /\ out' = Append(out, UpdateLine(dep, dep_latest))
             /\ asked' = asked \cup Queried(dep_name)
        ELSE UNCHANGED <<deps_map, new_deps, out, asked>>
  /\ UNCHANGED <<env, loop, pc, ck_name, ck_filter, ck_ident, ck_deps, ck_j, stack, calls>>

\* the same turn, were a candidate already in the newly resolved list not
\* pushed a second time
DoCheckDepOnce ==
  /\ pc = "deps"
  /\ ck_i <= Len(ck_deps)
  /\ ck_i' = ck_i + 1
  /\ LET dep == ck_deps[ck_i]
         dep_name == short_name(dep)
         dep_latest == resolve_name(graph, dep_name)
     IN IF StartsWith(dep, ck_filter)
        THEN /\ deps_map' = LedgerInsert(deps_map, dep_name, dep_latest)
             /\ new_deps' = IF \E k \in DOMAIN new_deps : new_deps[k] = dep_latest
                            THEN new_deps ELSE Append(new_deps, dep_latest)
             /\ out' = Append(out, UpdateLine(dep, dep_latest))
             /\ asked' = asked \cup Queried(dep_name)
        ELSE UNCHANGED <<deps_map, new_deps, out, asked>>
  /\ UNCHANGED <<env, loop, pc, ck_name, ck_filter, ck_ident, ck_deps, ck_j, stack, calls>>

\* one turn of "for dep in package.get_deps()" in do_check
DoCheckDep ==
  /\ pc = "deps"
  /\ ck_i <= Len(ck_deps)
  /\ ck_i' = ck_i + 1
  /\ LET dep == ck_deps[ck_i]
         dep_name == short_name(dep)
         dep_latest == resolve_name(graph, dep_name)
     IN IF StartsWith(dep, ck_filter)
        THEN /\ deps_map' = LedgerInsert(deps_map, dep_name, dep_latest)
             /\ new_deps' = Append(new_deps, dep_latest)
             /\ out' = Append(out, UpdateLine(dep, dep_latest))
             /\ asked' = asked \cup Queried(dep_name)
        ELSE UNCHANGED <<deps_map, new_deps, out, asked>>
  /\ UNCHANGED <<env, loop, pc, ck_name, ck_filter, ck_ident, ck_deps, ck_j, stack, calls>>

\* the loop is over: println!() and on to "for new_dep in new_deps"
DoCheckDepsDone ==
  /\ pc = "deps"
  /\ ck_i > Len(ck_deps)
  /\ out' = Append(out, BlankLine)
  /\ pc' = "walk"
  /\ UNCHANGED <<env, loop, chk, deps_map, new_deps, ck_j, stack, asked, calls>>

Frame(id) == [ident |-> id, entered |-> FALSE, deps |-> << >>, k |-> 1]

\* do_check calls check_package on the next newly resolved candidate
DoCheckWalkReverse ==
  /\ pc = "walk"
  /\ stack = << >>
  /\ ck_j <= Len(new_deps)
  /\ stack' = <<Frame(new_deps[Len(new_deps) + 1 - ck_j])>>
  /\ ck_j' = ck_j + 1
  /\ calls' = Append(calls, new_deps[Len(new_deps) + 1 - ck_j])
  /\ UNCHANGED <<env, loop, pc, chk, deps_map, new_deps, out, asked>>

DoCheckWalk ==
  /\ pc = "walk"
  /\ stack = << >>
  /\ ck_j <= Len(new_deps)
  /\ stack' = <<Frame(new_deps[ck_j])>>
  /\ ck_j' = ck_j + 1
  /\ calls' = Append(calls, new_deps[ck_j])
  /\ UNCHANGED <<env, loop, pc, chk, deps_map, new_deps, out, asked>>

\* all candidates walked: the elapsed-time line, and back to the prompt
DoCheckEnd ==
  /\ pc = "walk"
  /\ stack = << >>
  /\ ck_j > Len(new_deps)
  /\ out' = Append(out, TimeLine)
  /\ pc' = "prompt"
  /\ UNCHANGED <<env, loop, chk, deps_map, new_deps, ck_j, stack, asked, calls>>

(* ---------------------------- check_package ---------------------------- *)

Top == stack[Len(stack)]
Pop == SubSeq(stack, 1, Len(stack) - 1)
SetTop(f) == [stack EXCEPT ![Len(stack)] = f]

\* match datastore.get_job_graph_package(ident)
CheckPackageFetchAbort ==
  /\ pc = "walk"
  /\ stack # << >>
  /\ ~Top.entered
  /\ IF StoreHas(store, Top.ident)
     THEN /\ stack' = SetTop([Top EXCEPT !.entered = TRUE,
                                         !.deps = StoreDeps(store, Top.ident)])
          /\ out' = out
     ELSE /\ stack' = << >>
          /\ out' = Append(out, NoMatchFor(Top.ident))
  /\ UNCHANGED <<env, loop, pc, chk, deps_map, new_deps, ck_j, asked, calls>>

CheckPackageFetch ==
  /\ pc = "walk"
  /\ stack # << >>
  /\ ~Top.entered
  /\ IF StoreHas(store, Top.ident)
     THEN /\ stack' = SetTop([Top EXCEPT !.entered = TRUE,
                                         !.deps = StoreDeps(store, Top.ident)])
          /\ out' = out
     ELSE /\ stack' = Pop
          /\ out' = Append(out, NoMatchFor(Top.ident))
  /\ UNCHANGED <<env, loop, pc, chk, deps_map, new_deps, ck_j, asked, calls>>

\* the ledger and the report after the body of "if dep.starts_with(filter)"
\* up to the recursive call
EdgeLedger(m, dep) == LedgerOrInsert(m, short_name(dep), dep)
EdgeReportSeen(o, m, id, dep) ==
  IF short_name(dep) \in DOMAIN m
  THEN Append(o, ConflictBlock(id, m[short_name(dep)], dep))
  ELSE o
EdgeReport(o, m, id, dep) ==
  IF EdgeLedger(m, dep)[short_name(dep)] # dep
  THEN Append(o, ConflictBlock(id, EdgeLedger(m, dep)[short_name(dep)], dep))
  ELSE o

CanStep == pc = "walk" /\ stack # << >> /\ Top.entered /\ Top.k <= Len(Top.deps)

\* one turn of "for dep in package.get_deps()" in check_package: an edge the
\* filter passes, with the recursive call
CheckPackageDepVisited ==
  /\ CanStep
  /\ StartsWith(Top.deps[Top.k], ck_filter)
  /\ Len(stack) < MaxDepth
  /\ deps_map' = EdgeLedger(deps_map, Top.deps[Top.k])
  /\ out' = EdgeReport(out, deps_map, Top.ident, Top.deps[Top.k])
  /\ IF \E i \in DOMAIN calls : calls[i] = Top.deps[Top.k]
     THEN /\ stack' = SetTop([Top EXCEPT !.k = Top.k + 1])
          /\ calls' = calls
     ELSE /\ stack' = Append(SetTop([Top EXCEPT !.k = Top.k + 1]), Frame(Top.deps[Top.k]))
          /\ calls' = Append(calls, Top.deps[Top.k])
  /\ UNCHANGED <<env, loop, pc, chk, new_deps, ck_j, asked>>

CheckPackageDep ==
  /\ CanStep
  /\ StartsWith(Top.deps[Top.k], ck_filter)
  /\ Len(stack) < MaxDepth
  /\ deps_map' = EdgeLedger(deps_map, Top.deps[Top.k])
  /\ out' = EdgeReport(out, deps_map, Top.ident, Top.deps[Top.k])
  /\ stack' = Append(SetTop([Top EXCEPT !.k = Top.k + 1]), Frame(Top.deps[Top.k]))
  /\ calls' = Append(calls, Top.deps[Top.k])
  /\ UNCHANGED <<env, loop, pc, chk, new_deps, ck_j, asked>>

\* the same turn when the call stack has no room for the recursive call
CheckPackageOverflow ==
  /\ CanStep
  /\ StartsWith(Top.deps[Top.k], ck_filter)
  /\ Len(stack) >= MaxDepth
  /\ deps_map' = EdgeLedger(deps_map, Top.deps[Top.k])
  /\ out' = EdgeReport(out, deps_map, Top.ident, Top.deps[Top.k])
  /\ pc' = "overflow"
  /\ UNCHANGED <<env, loop, chk, new_deps, ck_j, stack, asked, calls>>

\* an edge the filter rejects
CheckPackageSkip ==
  /\ CanStep
  /\ ~StartsWith(Top.deps[Top.k], ck_filter)
  /\ stack' = SetTop([Top EXCEPT !.k = Top.k + 1])
  /\ UNCHANGED <<env, loop, pc, chk, deps_map, new_deps, ck_j, out, asked, calls>>

\* the loop is over: check_package returns to its caller
CheckPackageReturn ==
  /\ pc = "walk"
  /\ stack # << >>
  /\ Top.entered
  /\ Top.k > Len(Top.deps)
  /\ stack' = Pop
  /\ UNCHANGED <<env, loop, pc, chk, deps_map, new_deps, ck_j, out, asked, calls>>

(* ------------------------------- Next ---------------------------------- *)

Next ==
  \/ \E f \in FilterArgs : CmdFilter(f)
  \/ CmdFilterClear
  \/ CmdExit
  \/ CmdDeps
  \/ CmdRdeps
  \/ CmdExport
  \/ CmdBadCount
  \/ CmdPlain
  \/ \E n \in CheckNames : DoCheck(n)
  \/ DoCheckDep
  \/ DoCheckDepsDone
  \/ DoCheckWalk
  \/ DoCheckEnd
  \/ CheckPackageFetch
  \/ CheckPackageDep
  \/ CheckPackageOverflow
  \/ CheckPackageSkip
  \/ CheckPackageReturn

Spec == Init /\ [][Next]_vars

(* ------------------------- reading the state --------------------------- *)

\* p is a prefix of s, position by position
IsPrefix(p, s) == Len(p) <= Len(s) /\ \A i \in 1..Len(p) : s[i] = p[i]

\* origin/name of a four-part identifier, read off its positions
NameOf(id) == <<id[1], id[2], id[3]>>

Range(f) == {f[x] : x \in DOMAIN f}

\* a check run is under way / the last one has printed its elapsed-time line
Running  == pc \in {"deps", "walk"}
Finished == pc \in {"prompt", "panic"} /\ out # << >> /\ out[Len(out)] = TimeLine

ConflictsIn(o) == {i \in DOMAIN o : o[i].kind = "conflict"}

\* the dependencies of id that the filter f lets through, as a set
Passing(id, f) ==
  IF id \in DOMAIN store
  THEN {store[id][i] : i \in {j \in DOMAIN store[id] : IsPrefix(f, store[id][j])}}
  ELSE {}

\* the candidates do_check resolves from the root's passing dependencies
CandidateOf(d) == IF NameOf(d) \in DOMAIN graph THEN graph[NameOf(d)] ELSE NameOf(d)
Candidates(f) == {CandidateOf(d) : d \in Passing(ck_ident, f)}

\* everything reachable from the set S over passing edges
RECURSIVE Closure(_, _)
Closure(S, f) ==
  LET T == S \cup UNION {Passing(x, f) : x \in S}
  IN IF T = S THEN S ELSE Closure(T, f)

Walked(f) == Closure(Candidates(f), f)

(* ------------------------------- C1 ------------------------------------ *)

\* C1: during a check run a short name bound in the ledger keeps its
\* identifier at every step, and a step of check_package over a passing edge
\* whose identifier B differs from the binding A of its short name appends
\* exactly the conflict block (walked-from identifier, A, B) and leaves the
\* ledger as it was.
C1_FirstWriteWins ==
  [][ Running =>
        /\ \A s \in DOMAIN deps_map :
              s \in DOMAIN deps_map' /\ deps_map'[s] = deps_map[s]
        /\ \A id \in Idents :
             ( /\ CanStep
               /\ Top.deps[Top.k] = id
               /\ IsPrefix(ck_filter, id)
               /\ NameOf(id) \in DOMAIN deps_map
               /\ deps_map[NameOf(id)] # id )
             => /\ out' = Append(out, ConflictBlock(Top.ident, deps_map[NameOf(id)], id))
                /\ deps_map' = deps_map ]_vars

\* a conflict has been reported and the ledger still holds the first binding,
\* with a binding made by do_check and one made by check_package in the ledger
C1_Witness ==
  /\ Running
  /\ \E i \in ConflictsIn(out) :
        /\ out[i].b # out[i].c
        /\ deps_map[NameOf(out[i].c)] = out[i].b
  /\ \E s \in DOMAIN deps_map : deps_map[s] \notin Range([j \in DOMAIN new_deps |-> new_deps[j]])

(* ------------------------------- C2 ------------------------------------ *)

\* the targets of the edges the run walks: the root's passing dependencies
\* and those of every package check_package reaches
NestedTargets(f) == UNION {Passing(x, f) : x \in Walked(f)}
EdgeTargets(f) == Passing(ck_ident, f) \cup NestedTargets(f)

ConflictsFor(s) == {i \in ConflictsIn(out) : NameOf(out[i].c) = s}

\* C2 as stated: when every walked edge on a short name points to the same
\* identifier, no conflict is reported for that short name.
C2_Original ==
  \A s \in {NameOf(t) : t \in EdgeTargets(ck_filter)} :
    Cardinality({t \in EdgeTargets(ck_filter) : NameOf(t) = s}) = 1
      => ConflictsFor(s) = {}

\* the identifiers the run associates with a short name: the candidates of
\* the root's passing dependencies on it, and the targets of the passing
\* edges of the packages check_package reaches
RootOn(s, f) == {d \in Passing(ck_ident, f) : NameOf(d) = s}
NestedOn(s, f) == {t \in NestedTargets(f) : NameOf(t) = s}
SeenFor(s, f) == {CandidateOf(d) : d \in RootOn(s, f)} \cup NestedOn(s, f)

\* C2, amended: when the candidates resolved for the root's dependencies on
\* a short name and the targets of every edge on it that check_package
\* walks are one and the same identifier, no conflict is reported for it.
C2_NoFalseConflicts ==
  \A s \in {NameOf(t) : t \in EdgeTargets(ck_filter)} :
    Cardinality(SeenFor(s, ck_filter)) <= 1 => ConflictsFor(s) = {}

\* a finished run in which the root and a walked package both depend on the
\* same short name, the candidate agrees with the nested edge, no conflict
C2_Witness ==
  /\ Finished
  /\ \E s \in ShortNames :
        /\ RootOn(s, ck_filter) # {}
        /\ NestedOn(s, ck_filter) # {}
        /\ Cardinality(SeenFor(s, ck_filter)) = 1
        /\ \E x \in Walked(ck_filter), i \in DOMAIN calls :
              calls[i] \in NestedOn(s, ck_filter) /\ calls[i] \in Passing(x, ck_filter)
        /\ ConflictsFor(s) = {}

(* ------------------------------- C3 ------------------------------------ *)

LineIds(l) ==
  IF l.kind = "update" THEN {l.a, l.b}
  ELSE IF l.kind = "conflict" THEN {l.a, l.b, l.c}
  ELSE IF l.kind = "nomatch_for" THEN {l.a}
  ELSE {}

\* the identifiers the run has reported on, put in the ledger, or called
\* check_package on (which fetches them)
Reported == UNION {LineIds(out[i]) : i \in DOMAIN out}
Inserted == Range(deps_map)
Recursed == Range(calls) \cup {stack[i].ident : i \in DOMAIN stack}
Handled  == Reported \cup Inserted \cup Recursed

\* C3 as stated: nothing that fails the filter is reported on, fetched,
\* inserted or recursed into (the root, which do_check fetches before any
\* edge is looked at, is left out of the count).
C3_Original ==
  \A x \in Handled : IsPrefix(ck_filter, x)

\* candidates of passing root dependencies whose short name the filter
\* outruns
LongFilterCandidates(f) ==
  {CandidateOf(d) : d \in {t \in Passing(ck_ident, f) : ~IsPrefix(f, NameOf(t))}}

C3_HandledPass ==
  \A x \in Handled : IsPrefix(ck_filter, x) \/ x \in LongFilterCandidates(ck_filter)

C3_RejectedEdgeStep ==
  /\ ( pc = "deps" /\ ck_i <= Len(ck_deps) /\ ~IsPrefix(ck_filter, ck_deps[ck_i]) )
       => UNCHANGED <<deps_map, new_deps, out, calls, stack>>
  /\ ( CanStep /\ ~IsPrefix(ck_filter, Top.deps[Top.k]) )
       => UNCHANGED <<deps_map, new_deps, out, calls>> /\ Len(stack') = Len(stack)

C3_EmptyFilterStep ==
  ck_filter = EmptyStr =>
    /\ ( pc = "deps" /\ ck_i <= Len(ck_deps) )
         => new_deps' = Append(new_deps, CandidateOf(ck_deps[ck_i]))
    /\ CanStep => calls' = Append(calls, Top.deps[Top.k]) \/ pc' = "overflow"

\* C3, amended: an edge whose identifier fails the filter yields no report
\* line, no ledger entry, no candidate and no call of check_package; every
\* identifier reported on, inserted or recursed into starts with the filter,
\* except the candidate resolved for a passing direct dependency when the
\* filter is longer than that dependency's origin/name (the root itself is
\* fetched whatever the filter); with the empty filter every edge is taken.
C3_FilterExclusivity ==
  /\ []C3_HandledPass
  /\ [][C3_RejectedEdgeStep]_vars
  /\ [][C3_EmptyFilterStep]_vars

\* a finished run under a filter that rejected an edge of a walked package
C3_Witness ==
  /\ Finished
  /\ ck_filter # EmptyStr
  /\ calls # << >>
  /\ \E x \in Walked(ck_filter) \cup {ck_ident} :
       \E t \in Passing(x, EmptyStr) : ~IsPrefix(ck_filter, t) /\ t \notin Handled

(* ------------------------------- C4 ------------------------------------ *)

\* the steps of a check run; the run is synchronous, so it keeps stepping
\* for as long as it can
RunStep ==
  \/ DoCheckDep
  \/ DoCheckDepsDone
  \/ DoCheckWalk
  \/ DoCheckEnd
  \/ CheckPackageFetch
  \/ CheckPackageDep
  \/ CheckPackageOverflow
  \/ CheckPackageSkip
  \/ CheckPackageReturn

FairSpec == Init /\ [][Next]_vars /\ WF_vars(RunStep)

\* a cycle of passing edges can be reached from a candidate
Cyclic(f) == \E x \in Walked(f) : x \in Closure(Passing(x, f), f)

FailuresIn(o) == {i \in DOMAIN o : o[i].kind = "nomatch_for"}

\* check_package is about to fetch an identifier the store does not hold
AtFailure == pc = "walk" /\ stack # << >> /\ ~Top.entered /\ Top.ident \notin DOMAIN store

C4_FailStep ==
  AtFailure =>
    /\ out' = Append(out, NoMatchFor(Top.ident))
    /\ deps_map' = deps_map
    /\ stack' = SubSeq(stack, 1, Len(stack) - 1)
    /\ pc' = "walk"
    /\ UNCHANGED <<new_deps, ck_j, calls>>

C4_ReportKept == Running => Len(out) <= Len(out') /\ SubSeq(out', 1, Len(out)) = out

\* at the end of a run every candidate and every passing dependency of every
\* package check_package entered has been walked
C4_AllWalked ==
  Finished =>
    /\ \A j \in DOMAIN new_deps : new_deps[j] \in Range(calls)
    /\ \A y \in Range(calls) : Passing(y, ck_filter) \subseteq Range(calls)

\* C4 as stated, in the part a finite run refutes: a run in which a fetch
\* failed is never cut short, it goes on to its elapsed-time line.
C4_Original == FailuresIn(out) # {} => pc # "overflow"

\* C4, amended: a failed fetch of a non-root identifier X appends exactly
\* the line for X, leaves the ledger and the candidates alone and returns to
\* the caller; nothing already reported is lost; the remaining siblings and
\* candidates are walked, and the run reaches its elapsed-time line unless a
\* cycle of passing edges is reachable from a candidate.
C4_LeafFailureIsolation ==
  /\ [][C4_FailStep]_vars
  /\ [][C4_ReportKept]_vars
  /\ []C4_AllWalked
  /\ []((FailuresIn(out) # {} /\ pc = "overflow") => Cyclic(ck_filter))
  /\ <>[]((FailuresIn(out) # {} /\ ~Cyclic(ck_filter)) => Finished)

\* a finished run with a failure line that is followed by a conflict found
\* in a sibling walked afterwards, and preceded by another conflict
C4_Witness ==
  /\ Finished
  /\ \E i \in FailuresIn(out) : \E j, k \in ConflictsIn(out) : j < i /\ i < k

(* ------------------------------- C5 ------------------------------------ *)

RootNotFound == ck_name # EmptyStr /\ ck_ident \notin DOMAIN store

\* C5 as stated: the only output is the "No matching package found" line.
C5_Original ==
  RootNotFound =>
    /\ out = <<NoMatchRoot>>
    /\ pc \notin {"deps", "walk", "overflow"} /\ stack = << >> /\ calls = << >>
    /\ deps_map = << >> /\ new_deps = << >>

\* C5, amended: when the root is not found the run prints "No matching
\* package found" followed only by the elapsed-time line every run ends
\* with; check_package is never called and the ledger stays empty.
C5_RootNotFound ==
  RootNotFound =>
    /\ out = <<NoMatchRoot, TimeLine>>
    /\ pc \notin {"deps", "walk", "overflow"} /\ stack = << >> /\ calls = << >>
    /\ deps_map = << >> /\ new_deps = << >>

\* the graph has no entry for the name, which stays a bare origin/name, and
\* a filter is active
C5_Witness ==
  /\ RootNotFound
  /\ ck_ident = ck_name
  /\ Len(ck_name) = 3
  /\ ck_filter # EmptyStr

(* ------------------------------- C6 ------------------------------------ *)

C6_Safety ==
  /\ Finished => ~Cyclic(ck_filter)
  /\ pc = "overflow" => Cyclic(ck_filter)

\* C6: a run reaches its elapsed-time line if and only if no cycle of
\* passing edges is reachable from a candidate: with such a cycle the
\* recursion goes on until the stack is exhausted and the line is never
\* printed, without one the run always completes (every run comes to an end,
\* one way or the other).
C6_Termination ==
  /\ []C6_Safety
  /\ <>[](~Running)

\* the stack is exhausted on a cycle that runs through more than one package
C6_Witness ==
  /\ pc = "overflow"
  /\ \E i \in DOMAIN stack : stack[i].ident # Top.ident
  /\ \E i \in DOMAIN stack : i < Len(stack) /\ stack[i].ident = Top.ident

(* ------------------------------- C7 ------------------------------------ *)

\* the report the claim describes, computed from the store, the graph, the
\* root and the filter alone
Fuel == Cardinality(Idents) + 1

Bind(m, s, v) == IF s \in DOMAIN m THEN m ELSE [x \in DOMAIN m \cup {s} |-> IF x = s THEN v ELSE m[x]]

\* depth-first, pre-order: the block of an edge, then everything under the
\* edge's target, then the next edge
RECURSIVE ExpPackage(_, _, _, _), ExpEdges(_, _, _, _, _, _)
ExpPackage(id, m, f, fuel) ==
  IF id \notin DOMAIN store
  THEN [lines |-> <<NoMatchFor(id)>>, map |-> m]
  ELSE ExpEdges(id, store[id], 1, m, f, fuel)
ExpEdges(id, deps, k, m, f, fuel) ==
  IF k > Len(deps) THEN [lines |-> << >>, map |-> m]
  ELSE IF ~IsPrefix(f, deps[k]) THEN ExpEdges(id, deps, k + 1, m, f, fuel)
  ELSE LET m1   == Bind(m, NameOf(deps[k]), deps[k])
           here == IF m1[NameOf(deps[k])] # deps[k]
                   THEN <<ConflictBlock(id, m1[NameOf(deps[k])], deps[k])>>
                   ELSE << >>
           sub  == IF fuel = 0 THEN [lines |-> << >>, map |-> m1]
                   ELSE ExpPackage(deps[k], m1, f, fuel - 1)
           rest == ExpEdges(id, deps, k + 1, sub.map, f, fuel)
       IN [lines |-> here \o sub.lines \o rest.lines, map |-> rest.map]

\* the root's passing dependencies, in store order
RECURSIVE PassingSeq(_, _)
PassingSeq(deps, f) ==
  IF deps = << >> THEN << >>
  ELSE (IF IsPrefix(f, Head(deps)) THEN <<Head(deps)>> ELSE << >>) \o PassingSeq(Tail(deps), f)

ExpUpdates(ds) == [i \in DOMAIN ds |-> UpdateLine(ds[i], CandidateOf(ds[i]))]
ExpCands(ds)   == [i \in DOMAIN ds |-> CandidateOf(ds[i])]
ExpRootMap(ds) == [s \in {NameOf(ds[i]) : i \in DOMAIN ds} |-> CandidateOf(s)]

RECURSIVE ExpWalk(_, _, _, _)
ExpWalk(cands, j, m, f) ==
  IF j > Len(cands) THEN << >>
  ELSE LET r == ExpPackage(cands[j], m, f, Fuel)
       IN r.lines \o ExpWalk(cands, j + 1, r.map, f)

ExpBanner(f) == IF f = EmptyStr THEN << >> ELSE <<FilteredLine(f)>>

ExpReport(id, f) ==
  IF id \notin DOMAIN store THEN <<NoMatchRoot, TimeLine>>
  ELSE LET ds == PassingSeq(store[id], f)
       IN ExpBanner(f) \o <<HeaderLine>> \o ExpUpdates(ds) \o <<BlankLine>>
          \o ExpWalk(ExpCands(ds), 1, ExpRootMap(ds), f) \o <<TimeLine>>

Started == ck_name # EmptyStr

\* C7: at every moment of a run the report is an initial part of: the update
\* lines, one per passing direct dependency in store order, then the lines
\* of the walk of the candidates in list order, depth-first and pre-order in
\* the store's dependency order.
C7_ReportOrdering ==
  (Started /\ pc # "overflow" /\ ~Cyclic(ck_filter)) =>
     /\ Len(out) <= Len(ExpReport(ck_ident, ck_filter))
     /\ out = SubSeq(ExpReport(ck_ident, ck_filter), 1, Len(out))

\* a finished run whose walk reported, in this order, a conflict under the
\* first candidate, a failure and a conflict, after two update lines whose
\* order is not the sorted one
C7_Witness ==
  /\ Finished
  /\ Len(new_deps) = 2
  /\ new_deps[1] = M_ID /\ new_deps[2] \in {L1_ID, L2_ID}
  /\ \E i \in FailuresIn(out) : \E j, k \in ConflictsIn(out) :
        j < i /\ i < k /\ out[j].a # out[k].a

(* ------------------------------- C8 ------------------------------------ *)

Count(q, x) == Cardinality({i \in DOMAIN q : q[i] = x})

\* the number of paths of passing edges from src to x
RECURSIVE PathsFrom(_, _, _, _), PathsVia(_, _, _, _, _)
PathsFrom(src, x, f, fuel) ==
  (IF src = x THEN 1 ELSE 0)
  + (IF src \in DOMAIN store /\ fuel > 0 THEN PathsVia(store[src], 1, x, f, fuel - 1) ELSE 0)
PathsVia(deps, k, x, f, fuel) ==
  IF k > Len(deps) THEN 0
  ELSE (IF IsPrefix(f, deps[k]) THEN PathsFrom(deps[k], x, f, fuel) ELSE 0)
       + PathsVia(deps, k + 1, x, f, fuel)

RECURSIVE PathsFromAll(_, _, _, _)
PathsFromAll(cands, j, x, f) ==
  IF j > Len(cands) THEN 0
  ELSE PathsFrom(cands[j], x, f, Fuel) + PathsFromAll(cands, j + 1, x, f)

\* how often the passing dependency d occurs in the list of y
Occurs(y, d, f) ==
  IF y \in DOMAIN store /\ IsPrefix(f, d) THEN Count(store[y], d) ELSE 0

\* C8: when a run finishes, check_package has been called on every
\* identifier once per path leading to it from the candidate list, and every
\* traversal of a passing edge whose identifier differs from the binding of
\* its short name has left its own conflict block.
C8_NoDeduplication ==
  Finished =>
    /\ \A x \in Idents \cup ShortNames :
         Count(calls, x) = PathsFromAll(new_deps, 1, x, ck_filter)
    /\ \A i \in ConflictsIn(out) : out[i].b = deps_map[NameOf(out[i].c)]
    /\ \A y \in Idents, d \in Idents :
         IF NameOf(d) \in DOMAIN deps_map /\ deps_map[NameOf(d)] # d
         THEN Count(out, ConflictBlock(y, deps_map[NameOf(d)], d))
                = Count(calls, y) * Occurs(y, d, ck_filter)
         ELSE \A i \in ConflictsIn(out) : out[i].c # d

\* a finished run that walked one identifier twice and printed the same
\* conflict block twice
C8_Witness ==
  /\ Finished
  /\ \E i, j \in ConflictsIn(out) : i < j /\ out[i] = out[j]
  /\ \E x \in Idents : Count(calls, x) >= 2

(* ------------------------------- C9 ------------------------------------ *)

\* C9: a run starts from an empty ledger and an empty candidate list,
\* whatever the run before it left behind, and its finished report is the
\* one the graph, the store, the name and the filter determine.
C9_LedgerLifecycle ==
  /\ (pc = "deps" /\ ck_i = 1) => deps_map = << >> /\ new_deps = << >>
  /\ Running => DOMAIN deps_map \subseteq {NameOf(t) : t \in EdgeTargets(ck_filter)}
  /\ Finished => out = ExpReport(IF NameOf(ck_name) \in DOMAIN graph /\ Len(ck_name) = 3
                                 THEN graph[NameOf(ck_name)] ELSE ck_name, ck_filter)

\* a second run begins while the first one's ledger, with a binding the
\* second run would not make, is still around
C9_Witness ==
  /\ pc = "deps" /\ ck_i = 1
  /\ \E s \in DOMAIN stale : s \notin {NameOf(t) : t \in EdgeTargets(ck_filter)}
  /\ EdgeTargets(ck_filter) # {}

(* ------------------------------- C10 ----------------------------------- *)

Inputs == Idents \cup ShortNames \cup {SN_X}
Latest(s) == IF s \in DOMAIN graph THEN graph[s] ELSE s

\* C10: resolve_name gives back a four-part identifier as it is and asks the
\* graph nothing; for origin/name it gives the graph's latest, or the input
\* when the graph has none; resolving twice is resolving once.
C10_Function ==
  /\ \A id \in Idents : resolve_name(graph, id) = id /\ Queried(id) = {}
  /\ \A s \in ShortNames \cup {SN_X} : resolve_name(graph, s) = Latest(s) /\ Queried(s) = {s}
  /\ \A x \in Inputs :
        resolve_name(graph, resolve_name(graph, x)) = resolve_name(graph, x)

\* (the graph never changes, so the function is looked at once per session)
C10_IdentityResolution ==
  /\ ncmds = 0 => C10_Function
  /\ (Started /\ ck_name \in Idents) => ck_ident = ck_name /\ ck_name \notin asked
  /\ (Started /\ ck_name \notin Idents) => ck_ident = Latest(ck_name) /\ ck_name \in asked
  /\ \A i \in DOMAIN out : out[i].kind = "update" => out[i].b = Latest(NameOf(out[i].a))
  /\ \A s \in asked : Len(s) = 3

\* a run on a full identifier, never handed to the graph, one of whose direct
\* dependencies has no latest in the graph and stays a bare origin/name
C10_Witness ==
  /\ Started
  /\ ck_name \in Idents
  /\ ck_ident \in DOMAIN store
  /\ \E i \in DOMAIN out : out[i].kind = "update" /\ out[i].b = NameOf(out[i].a)
  /\ \E i \in DOMAIN out : out[i].kind = "update" /\ out[i].b \in Idents

(* ------------------------------- C11 ----------------------------------- *)

\* the root depends on a and on the middle package, the middle package on b
\* alone, a and b being two versions under one short name with no
\* dependencies of their own
ScenarioTwo(a, b) ==
  /\ {a, b} = {L1_ID, L2_ID}
  /\ a # b
  /\ ck_ident = P_ID
  /\ P_ID \in DOMAIN store
  /\ store[P_ID] \in {<<a, M_ID>>, <<M_ID, a>>}
  /\ M_ID \in DOMAIN store
  /\ store[M_ID] = <<b>>
  /\ \A x \in {a, b} \cap DOMAIN store : store[x] = << >>

ConflictLines == {out[i] : i \in ConflictsIn(out)}

\* C11 as stated, read with no filter set: one conflict, between the root's
\* candidate and b, whatever the graph holds.
C11_Original ==
  \A a, b \in {L1_ID, L2_ID} :
     (Finished /\ ScenarioTwo(a, b) /\ ck_filter = EmptyStr) =>
        /\ Cardinality(ConflictsIn(out)) = 1
        /\ ConflictLines = {ConflictBlock(M_ID, CandidateOf(a), b)}

\* C11: in the two-level scenario the report has one conflict, raised while
\* walking the middle package, between the candidate bound from the root's
\* edge and b, when the three edges pass the filter, the graph's latest for
\* the middle package is the middle package and the candidate is not b
\* itself; in every other case it has no conflict at all.
C11_ScenarioTwo ==
  \A a, b \in {L1_ID, L2_ID} :
     (Finished /\ ScenarioTwo(a, b)) =>
        IF /\ \A d \in {a, M_ID, b} : IsPrefix(ck_filter, d)
           /\ CandidateOf(M_ID) = M_ID
           /\ CandidateOf(a) # b
        THEN /\ Cardinality(ConflictsIn(out)) = 1
             /\ ConflictLines = {ConflictBlock(M_ID, CandidateOf(a), b)}
             /\ deps_map[NameOf(a)] = CandidateOf(a)
        ELSE ConflictsIn(out) = {}

\* a finished run of the scenario with its one conflict, the recorded side
\* being the graph's latest and not the version the root declared
C11_Witness ==
  /\ Finished
  /\ \E a, b \in {L1_ID, L2_ID} :
        /\ ScenarioTwo(a, b)
        /\ ConflictLines = {ConflictBlock(M_ID, CandidateOf(a), b)}
        /\ CandidateOf(a) # a

(* ------------------------------- C12 ----------------------------------- *)

\* the root's i-th and j-th declared dependencies pass the filter and are two
\* versions under one short name
DirectClash(i, j) ==
  /\ i < j
  /\ NameOf(ck_deps[i]) = NameOf(ck_deps[j])
  /\ ck_deps[i] # ck_deps[j]
  /\ IsPrefix(ck_filter, ck_deps[i])
  /\ IsPrefix(ck_filter, ck_deps[j])

\* the passing direct dependencies under the short name s
SameName(s) ==
  {k \in DOMAIN ck_deps : IsPrefix(ck_filter, ck_deps[k]) /\ NameOf(ck_deps[k]) = s}

\* C12: once do_check has been over two passing direct dependencies that are
\* different versions under one short name, the report has an update line
\* for each with the same candidate, the ledger binds the short name to that
\* candidate, the candidate is in the newly resolved list once per such
\* dependency, no conflict has been printed before the walk starts and none
\* is ever printed on behalf of a package that was not walked, every entry
\* of the list whose turn has come has been handed to check_package, and a
\* finished run has walked the candidate at least twice.
C12_DirectNoConflict ==
  /\ pc = "deps" => ConflictsIn(out) = {}
  /\ (pc = "walk" /\ calls = << >>) => ConflictsIn(out) = {}
  /\ Running => \A n \in ConflictsIn(out) : out[n].a \in Range(calls)
  /\ \A i, j \in DOMAIN ck_deps :
        (DirectClash(i, j) /\ ((pc = "deps" /\ ck_i > j) \/ pc = "walk" \/ Finished)) =>
           LET c == CandidateOf(ck_deps[i])
           IN /\ Count(out, UpdateLine(ck_deps[i], c)) = 1
              /\ Count(out, UpdateLine(ck_deps[j], c)) = 1
              /\ NameOf(ck_deps[i]) \in DOMAIN deps_map
              /\ deps_map[NameOf(ck_deps[i])] = c
              /\ Count(new_deps, c) = Cardinality(SameName(NameOf(ck_deps[i])) \cap 1..(ck_i - 1))
              /\ Count(new_deps, c) >= 2
              /\ pc = "walk" =>
                    Count(calls, c) >= Count(SubSeq(new_deps, 1, ck_j - 1), c)
              /\ Finished => Count(calls, c) >= 2

\* a finished run whose root declared two versions under one short name:
\* two update lines, the candidate walked twice, and not one conflict
C12_Witness ==
  /\ Finished
  /\ \E i, j \in DOMAIN ck_deps :
        /\ DirectClash(i, j)
        /\ Count(calls, CandidateOf(ck_deps[i])) >= 2
        /\ CandidateOf(ck_deps[i]) \in Idents
  /\ ConflictsIn(out) = {}

(* ------------------------------- C13 ----------------------------------- *)

Callees == {"deps", "rdeps", "export"}

\* the loop reads no further command
LoopEnded == done \/ pc \in {"panic", "overflow"}

\* the filter in force is the argument of the latest "filter" command, do_check
\* runs under it, and a step that hands a callee another filter than the one
\* it had last hands it that argument
FilterInForce ==
  /\ [](filter = fcmd)
  /\ [](Running => ck_filter = fcmd)
  /\ [][(ck_filter' # ck_filter => ck_filter' = fcmd /\ fcmd' = fcmd) /\
        (\A k \in Callees :
            passed'[k] # passed[k] => passed'[k] = fcmd /\ fcmd' = fcmd)]_vars

\* a step that changes the filter is the reading of a "filter" command with
\* the new value as its argument: it starts no run, calls nothing, and
\* leaves the loop going
FilterFrame ==
  [][filter' # filter =>
        /\ fcmd' = filter'
        /\ ncmds' = ncmds + 1
        /\ UNCHANGED <<done, exited, pc, passed, run>>]_vars

\* C13 as stated: the filter handed to check, deps, rdeps and export is the
\* argument of the latest "filter" command (empty when there was none or it
\* had no argument), only "filter" changes it, and the loop reads no further
\* command only once "exit" has been read.
C13_Original ==
  /\ FilterInForce
  /\ FilterFrame
  /\ [](exited <=> done)
  /\ [](LoopEnded => exited)

\* C13, the part of it the loop keeps: everything but the last conjunct,
\* and the flag done is set by "exit" alone.
C13_ActiveFilter ==
  /\ FilterInForce
  /\ FilterFrame
  /\ [](exited <=> done)

====
